---- MODULE Spec2Model ----
(***************************************************************************)
(* Data Pilot / Pipeline Dashboard.                                        *)
(*                                                                         *)
(* Part I   Pipeline Dashboard backend (pipeline-dashboard/backend/main.py)*)
(*          session store, step log, live log broadcaster, stage handlers. *)
(*          Handlers are coroutines: one action per block of code between  *)
(*          two awaits.                                                    *)
(***************************************************************************)
EXTENDS Integers, Sequences, FiniteSets, TLC

VARIABLES
    pipeline_sessions,   \* main.py:27   session id -> session record
    active_connections,  \* main.py:203  session id -> websocket
    handlers,            \* in-flight HTTP stage handlers (suspended coroutines)
    sockets,             \* websocket_logs coroutines and their client ends
    response,            \* what the handler that finished last returned
    rate_limiter,        \* main.py:32   client address -> request times
    now,                 \* the clock, in seconds
    http,                \* the HTTP response that left the middleware stack last
    users,               \* Data Pilot: table users
    user_data,           \* Data Pilot: table user_data
    registered,          \* history: the (email, password) pairs register accepted
    logged_out,          \* history: the tokens presented to logout
    deleted,             \* history: the (user id, item id) pairs delete_data deleted
    app_response,        \* Data Pilot: the response produced last
    checked,             \* the validator call made last: its argument and result
    registrations        \* Data Pilot: register requests that take their awaits apart

dashVars == <<pipeline_sessions, active_connections, handlers, sockets, response>>
rateVars == <<rate_limiter, now, http>>
histVars == <<logged_out, deleted>>
appVars == <<users, user_data, registered, histVars, app_response>>
valVars == <<checked>>
regVars == <<registrations>>
vars == <<dashVars, rateVars, appVars, valVars, regVars>>

(***************************************************************************)
(* Bounds of the model.                                                    *)
(***************************************************************************)
MaxSteps == 2        \* steps recorded, all sessions together
MaxInFlight == 2     \* stage handlers suspended at the same time

(***************************************************************************)
(* Values.                                                                 *)
(***************************************************************************)
NoValue == "None"       \* Python None / absent key
NoId == <<>>            \* None where an identifier (a character sequence) stands

Rep(c, n) == [i \in 1..n |-> c]

\* identifiers are sequences of characters
UuidSid == Rep("a", 8) \o <<"-">> \o Rep("b", 4) \o <<"-">> \o Rep("4", 4)
              \o <<"-">> \o Rep("c", 4) \o <<"-">> \o Rep("0", 12)
DefaultSid == <<"d", "e", "f", "a", "u", "l", "t">>     \* main.py:312 "default"
SessionIds == {UuidSid, DefaultSid}

GenFileIds == {<<"f", "i", "l", "e", "_", "1">>}         \* main.py:322
BadFileId == <<".", ".", "/", "x">>
FileIdInputs == GenFileIds \cup {BadFileId}

NoCredentials == "no-credentials"
CredentialInputs == {NoCredentials, "token"}
WebSockets == {"ws1", "ws2"}

Letters ==
    {"a","b","c","d","e","f","g","h","i","j","k","l","m",
     "n","o","p","q","r","s","t","u","v","w","x","y","z",
     "A","B","C","D","E","F","G","H","I","J","K","L","M",
     "N","O","P","Q","R","S","T","U","V","W","X","Y","Z"}
Digits == {"0","1","2","3","4","5","6","7","8","9"}

SessionIdLen == 36

\* re.match(r'^CLASS{lo,}$'): at least lo and, when hi >= 0, at most hi
\* characters of the class; '$' also matches before one trailing newline.
MatchesClass(s, class, lo, hi) ==
    LET n == Len(s)
        body == IF n > 0 /\ s[n] = "\n" THEN n - 1 ELSE n
        fits(m) == /\ m >= lo
                   /\ (hi < 0 \/ m <= hi)
                   /\ \A i \in 1..m : s[i] \in class
    IN  fits(n) \/ (body < n /\ fits(body))

validate_session_id(session_id) ==
    MatchesClass(session_id, Letters \cup Digits \cup {"-"}, SessionIdLen, SessionIdLen)

validate_file_id(file_id) ==
    MatchesClass(file_id, Letters \cup Digits \cup {"_", "-"}, 1, -1)

\* characters outside Latin-1 are written by their code points
TurkishLetters ==
    {"U+00E7", "U+011F", "U+0131", "U+00F6", "U+015F", "U+00FC",     \* c, g, i, o, s, u
     "U+00C7", "U+011E", "U+0130", "U+00D6", "U+015E", "U+00DC"}     \* C, G, I, O, S, U
\* what \s matches in a str pattern (a selection: ASCII whitespace and U+00A0)
Whitespace == {" ", "\t", "\n", "\r", "\f", "U+000B", "U+00A0"}
\* a lone surrogate: the only kind of character str.encode('utf-8') refuses
Surrogates == {"U+D800"}
MaxFilenameLen == 255

\* mutant: the validator without its length limit
validate_filename_unlimited(filename) ==
    /\ Len(filename) > 0
    /\ MatchesClass(filename,
                    Letters \cup TurkishLetters \cup Digits \cup {".", "_", "-"}
                        \cup Whitespace, 1, -1)
    /\ \A i \in 1..Len(filename) : filename[i] \notin Surrogates

\* main.py:131-145 with VALIDATION_PATTERNS['filename'], main.py:42
validate_filename(filename) ==
    /\ Len(filename) > 0 /\ Len(filename) <= MaxFilenameLen
    /\ MatchesClass(filename,
                    Letters \cup TurkishLetters \cup Digits \cup {".", "_", "-"}
                        \cup Whitespace, 1, -1)
    /\ \A i \in 1..Len(filename) : filename[i] \notin Surrogates

\* verify_token accepts every presented credential and names a fixed user
verify_token(credentials) == [user_id |-> "test_user", token |-> credentials]

(***************************************************************************)
(* Stages and step descriptors.                                            *)
(***************************************************************************)
SleepStages == {"clean", "analyze", "visualize", "model", "report", "convert", "schema"}
Stages == {"upload", "preview"} \cup SleepStages

StageIndex(stage) ==
    CASE stage = "upload" -> 1
      [] stage = "preview" -> 2
      [] stage = "clean" -> 3
      [] stage = "analyze" -> 4
      [] stage = "visualize" -> 5
      [] stage = "model" -> 6
      [] stage = "report" -> 7
      [] stage = "convert" -> 8
      [] stage = "schema" -> 9

\* the step dictionary a handler appends (timestamp and the fixed per-stage
\* texts are not read by any operation and are left out)
Step(stage, file_id) ==
    [step |-> stage, status |-> "completed", file_id |-> file_id]

\* the record get_pipeline_state inserts: no "user_id" key
NewSession(session_id) ==
    [session_id |-> session_id, current_file_id |-> NoId, current_step |-> 0,
     steps |-> <<>>, undo_stack |-> <<>>, redo_stack |-> <<>>, logs |-> <<>>,
     user_id |-> NoValue]

\* mutant: the record starts with a line in its logs
UploadSessionLogged(session_id, file_id, user) ==
    [session_id |-> session_id, current_file_id |-> file_id, current_step |-> 1,
     steps |-> <<>>, undo_stack |-> <<>>, redo_stack |-> <<>>,
     logs |-> <<"File uploaded">>, user_id |-> user.user_id]

\* the record upload_file inserts before it appends its step
UploadSession(session_id, file_id, user) ==
    [session_id |-> session_id, current_file_id |-> file_id, current_step |-> 1,
     steps |-> <<>>, undo_stack |-> <<>>, redo_stack |-> <<>>, logs |-> <<>>,
     user_id |-> user.user_id]

Put(f, k, v) == [x \in DOMAIN f \cup {k} |-> IF x = k THEN v ELSE f[x]]
Drop(f, k) == [x \in DOMAIN f \ {k} |-> f[x]]

\* mutant: the append without the assignment to current_step
AppendStepOnly(sessions, session_id, stage, file_id) ==
    [sessions EXCEPT ![session_id].steps = Append(@, Step(stage, file_id))]

\* mutant: current_step derived from the number of recorded steps
AppendStepCounting(sessions, session_id, stage, file_id) ==
    [sessions EXCEPT ![session_id] =
        [@ EXCEPT !.steps = Append(@, Step(stage, file_id)),
                  !.current_step = Len(sessions[session_id].steps) + 1]]

\* steps.append(step); current_step = index  (one block, no await between)
AppendStep(sessions, session_id, stage, file_id) ==
    [sessions EXCEPT ![session_id] =
        [@ EXCEPT !.steps = Append(@, Step(stage, file_id)),
                  !.current_step = StageIndex(stage)]]

\* mutant: the guard taken for granted, nothing recorded
RecordNothing(sessions, session_id, stage, file_id) == sessions

\* "if session_id in pipeline_sessions: append" of preview and the sleep stages
RecordIfKnown(sessions, session_id, stage, file_id) ==
    IF session_id \in DOMAIN sessions
    THEN AppendStep(sessions, session_id, stage, file_id)
    ELSE sessions

\* mutant: the upload starts the session's record afresh
RecordUploadFresh(sessions, session_id, file_id, user) ==
    AppendStep(Put(sessions, session_id, UploadSession(session_id, file_id, user)),
               session_id, "upload", file_id)

\* mutant: every upload writes the uploader into the record
RecordUploadClaiming(sessions, session_id, file_id, user) ==
    LET s1 == IF session_id \in DOMAIN sessions THEN sessions
              ELSE Put(sessions, session_id, UploadSession(session_id, file_id, user))
    IN  [AppendStep(s1, session_id, "upload", file_id)
            EXCEPT ![session_id].current_file_id = file_id,
                   ![session_id].user_id = user.user_id]

\* upload_file's state update, main.py:331-356
RecordUpload(sessions, session_id, file_id, user) ==
    LET s1 == IF session_id \in DOMAIN sessions THEN sessions
              ELSE Put(sessions, session_id, UploadSession(session_id, file_id, user))
    IN  [AppendStep(s1, session_id, "upload", file_id)
            EXCEPT ![session_id].current_file_id = file_id]

(***************************************************************************)
(* ConnectionManager.                                                      *)
(***************************************************************************)
\* mutant: every entry goes, not only the one of the session id
disconnect_all(conns, session_id) ==
    IF session_id \in DOMAIN conns THEN <<>> ELSE conns

disconnect(conns, session_id) ==
    IF session_id \in DOMAIN conns THEN Drop(conns, session_id) ELSE conns

\* send_log after its send_text await: a failed write runs disconnect
send_text_done(conns, session_id, ok) ==
    IF ok THEN conns ELSE disconnect(conns, session_id)

\* a write to a socket the client has closed may fail; to an open one it succeeds
WriteOutcomes(ws) == IF sockets[ws].client = "closed" THEN {TRUE, FALSE} ELSE {TRUE}

(***************************************************************************)
(* Handler slots.                                                          *)
(***************************************************************************)
Handler(kind, session_id, file_id, pc, ws) ==
    [kind |-> kind, sid |-> session_id, file_id |-> file_id, pc |-> pc, ws |-> ws]
Idle == Handler(NoValue, NoId, NoId, "idle", NoValue)   \* a slot with no coroutine

Slots == 1..MaxInFlight
Busy == {i \in Slots : handlers[i] # Idle}
FreeSlot == CHOOSE i \in Slots \ Busy : \A j \in Slots \ Busy : i <= j
CanStart(lim) == Cardinality(Busy) < lim

\* handlers that have not reached their append yet
Pending == Cardinality({i \in Busy : handlers[i].pc \in {"write1", "sleep"}})
RECURSIVE Recorded(_)
Recorded(ids) ==
    IF ids = {} THEN 0
    ELSE LET s == CHOOSE x \in ids : TRUE
         IN  Len(pipeline_sessions[s].steps) + Recorded(ids \ {s})
Room == Recorded(DOMAIN pipeline_sessions) + Pending < MaxSteps

\* a response: its status, the session record it returns (GET /api/state)
\* and the file id it returns (POST /api/upload)
NoRecord == NewSession(NoId)
Reply(op, session_id, status, record, file_id) ==
    [op |-> op, sid |-> session_id, status |-> status, record |-> record,
     file_id |-> file_id]
Error(op, session_id, status) == Reply(op, session_id, status, NoRecord, NoId)
Payload(kind, session_id, file_id) ==
    Reply(kind, session_id, 200, NoRecord, IF kind = "upload" THEN file_id ELSE NoId)

\* mutant: the record is initialised on every call
get_pipeline_state_reset(lim, session_id) ==
    /\ UNCHANGED <<rateVars, appVars, valVars, regVars>>
    /\ CanStart(lim)
    /\ pipeline_sessions' = Put(pipeline_sessions, session_id, NewSession(session_id))
    /\ response' = Reply("state", session_id, 200, pipeline_sessions'[session_id], NoId)
    /\ UNCHANGED <<active_connections, handlers, sockets>>

(***************************************************************************)
(* GET /api/state, main.py:275-290.                                        *)
(***************************************************************************)
get_pipeline_state(lim, session_id) ==
    /\ UNCHANGED <<rateVars, appVars, valVars, regVars>>
    /\ CanStart(lim)
    /\ pipeline_sessions' =
          IF session_id \notin DOMAIN pipeline_sessions
          THEN Put(pipeline_sessions, session_id, NewSession(session_id))
          ELSE pipeline_sessions
    /\ response' = Reply("state", session_id, 200, pipeline_sessions'[session_id], NoId)
    /\ UNCHANGED <<active_connections, handlers, sockets>>

(***************************************************************************)
(* POST /api/upload, main.py:311-376: up to the send_text await.           *)
(***************************************************************************)
upload_file_as(lim, session_id, credentials, user) ==
    /\ UNCHANGED <<rateVars, appVars, valVars, regVars>>
    /\ CanStart(lim)
    /\ Room
    /\ IF credentials = NoCredentials
       THEN \* HTTPBearer rejects the request before the handler runs
            /\ \E st \in {401, 403} : response' = Error("upload", session_id, st)
            /\ UNCHANGED <<pipeline_sessions, handlers>>
       ELSE IF ~validate_session_id(session_id)
       THEN /\ response' = Error("upload", session_id, 400)
            /\ UNCHANGED <<pipeline_sessions, handlers>>
       ELSE \E file_id \in GenFileIds :
            /\ pipeline_sessions' =
                  RecordUpload(pipeline_sessions, session_id, file_id, user)
            /\ IF session_id \in DOMAIN active_connections
               THEN /\ handlers' = [handlers EXCEPT ![FreeSlot] =
                          Handler("upload", session_id, file_id, "write2",
                                  active_connections[session_id])]
                    /\ UNCHANGED response
               ELSE /\ response' = Payload("upload", session_id, file_id)
                    /\ UNCHANGED handlers
    /\ UNCHANGED <<active_connections, sockets>>

\* the route: FastAPI passes what Depends(verify_token) returned as user
upload_file(lim, session_id, credentials) ==
    upload_file_as(lim, session_id, credentials, verify_token(credentials))

\* mutant: the append of a handler is lost when another handler of the same
\* session is in flight
RecordAndLogUnlessShared(i, kind, session_id, file_id, conns) ==
    /\ pipeline_sessions' =
          IF \E j \in Busy \ {i} : handlers[j].sid = session_id
          THEN pipeline_sessions
          ELSE RecordIfKnown(pipeline_sessions, session_id, kind, file_id)
    /\ IF session_id \in DOMAIN conns
       THEN /\ handlers' = [handlers EXCEPT ![i] =
                  Handler(kind, session_id, file_id, "write2", conns[session_id])]
            /\ UNCHANGED response
       ELSE /\ handlers' = [handlers EXCEPT ![i] = Idle]
            /\ response' = Payload(kind, session_id, file_id)

(***************************************************************************)
(* The code of a stage handler from its append to the second send_log:     *)
(* either suspends in send_text or returns the stage's payload.            *)
(***************************************************************************)
RecordAndLog(i, kind, session_id, file_id, conns) ==
    /\ pipeline_sessions' = RecordIfKnown(pipeline_sessions, session_id, kind, file_id)
    /\ IF session_id \in DOMAIN conns
       THEN /\ handlers' = [handlers EXCEPT ![i] =
                  Handler(kind, session_id, file_id, "write2", conns[session_id])]
            /\ UNCHANGED response
       ELSE /\ handlers' = [handlers EXCEPT ![i] = Idle]
            /\ response' = Payload(kind, session_id, file_id)

\* mutant: preview without the comparison of the session's owner
preview_data_any_owner(lim, session_id, file_id, credentials, user) ==
    /\ UNCHANGED <<rateVars, appVars, valVars, regVars>>
    /\ CanStart(lim)
    /\ Room
    /\ UNCHANGED <<active_connections, sockets>>
    /\ IF credentials = NoCredentials
       THEN /\ \E st \in {401, 403} : response' = Error("preview", session_id, st)
            /\ UNCHANGED <<pipeline_sessions, handlers>>
       ELSE IF ~validate_file_id(file_id) \/ ~validate_session_id(session_id)
       THEN /\ response' = Error("preview", session_id, 400)
            /\ UNCHANGED <<pipeline_sessions, handlers>>
       ELSE IF session_id \in DOMAIN active_connections
       THEN /\ handlers' = [handlers EXCEPT ![FreeSlot] =
                  Handler("preview", session_id, file_id, "write1",
                          active_connections[session_id])]
            /\ UNCHANGED <<pipeline_sessions, response>>
       ELSE /\ pipeline_sessions' =
                  RecordIfKnown(pipeline_sessions, session_id, "preview", file_id)
            /\ response' = Payload("preview", session_id, file_id)
            /\ UNCHANGED handlers

(***************************************************************************)
(* GET /api/preview, main.py:378-442: up to the first send_text await.     *)
(***************************************************************************)
preview_data_as(lim, session_id, file_id, credentials, user) ==
    /\ UNCHANGED <<rateVars, appVars, valVars, regVars>>
    /\ CanStart(lim)
    /\ Room
    /\ UNCHANGED <<active_connections, sockets>>
    /\ IF credentials = NoCredentials
       THEN /\ \E st \in {401, 403} : response' = Error("preview", session_id, st)
            /\ UNCHANGED <<pipeline_sessions, handlers>>
       ELSE IF ~validate_file_id(file_id) \/ ~validate_session_id(session_id)
       THEN /\ response' = Error("preview", session_id, 400)
            /\ UNCHANGED <<pipeline_sessions, handlers>>
       ELSE IF /\ session_id \in DOMAIN pipeline_sessions
               /\ pipeline_sessions[session_id].user_id # NoValue
               /\ pipeline_sessions[session_id].user_id # user.user_id
       THEN /\ response' = Error("preview", session_id, 403)
            /\ UNCHANGED <<pipeline_sessions, handlers>>
       ELSE IF session_id \in DOMAIN active_connections
       THEN /\ handlers' = [handlers EXCEPT ![FreeSlot] =
                  Handler("preview", session_id, file_id, "write1",
                          active_connections[session_id])]
            /\ UNCHANGED <<pipeline_sessions, response>>
       ELSE \* no connection: send_log returns at once and the handler runs on
            /\ pipeline_sessions' =
                  RecordIfKnown(pipeline_sessions, session_id, "preview", file_id)
            /\ response' = Payload("preview", session_id, file_id)
            /\ UNCHANGED handlers

\* the route: FastAPI passes what Depends(verify_token) returned as user
preview_data(lim, session_id, file_id, credentials) ==
    preview_data_as(lim, session_id, file_id, credentials, verify_token(credentials))

(***************************************************************************)
(* POST /api/clean ... /api/schema-validate, main.py:444-583: the first    *)
(* send_log, up to the send_text await or else the asyncio.sleep await.    *)
(***************************************************************************)
stage_call(lim, stage, session_id) ==
    /\ UNCHANGED <<rateVars, appVars, valVars, regVars>>
    /\ CanStart(lim)
    /\ Room
    /\ handlers' = [handlers EXCEPT ![FreeSlot] =
          IF session_id \in DOMAIN active_connections
          THEN Handler(stage, session_id, NoId, "write1", active_connections[session_id])
          ELSE Handler(stage, session_id, NoId, "sleep", NoValue)]
    /\ UNCHANGED <<pipeline_sessions, active_connections, sockets, response>>

\* the first send_text returns or raises
first_write_done(i) ==
    /\ UNCHANGED <<rateVars, appVars, valVars, regVars>>
    /\ i \in Busy
    /\ handlers[i].pc = "write1"
    /\ \E ok \in WriteOutcomes(handlers[i].ws) :
        LET h == handlers[i]
            conns == send_text_done(active_connections, h.sid, ok)
        IN  /\ active_connections' = conns
            /\ IF h.kind = "preview"
               THEN RecordAndLog(i, h.kind, h.sid, h.file_id, conns)
               ELSE /\ handlers' = [handlers EXCEPT ![i].pc = "sleep", ![i].ws = NoValue]
                    /\ UNCHANGED <<pipeline_sessions, response>>
    /\ UNCHANGED sockets

\* asyncio.sleep returns: append, then the second send_log
sleep_done(i) ==
    /\ UNCHANGED <<rateVars, appVars, valVars, regVars>>
    /\ i \in Busy
    /\ handlers[i].pc = "sleep"
    /\ RecordAndLog(i, handlers[i].kind, handlers[i].sid, handlers[i].file_id,
                    active_connections)
    /\ UNCHANGED <<active_connections, sockets>>

\* mutant: send_log without its try/except, a failed write reaches the caller
second_write_done_unguarded(i) ==
    /\ UNCHANGED <<rateVars, appVars, valVars, regVars>>
    /\ i \in Busy
    /\ handlers[i].pc = "write2"
    /\ \E ok \in WriteOutcomes(handlers[i].ws) :
        response' = IF ok THEN Payload(handlers[i].kind, handlers[i].sid, handlers[i].file_id)
                    ELSE Error(handlers[i].kind, handlers[i].sid, 500)
    /\ handlers' = [handlers EXCEPT ![i] = Idle]
    /\ UNCHANGED <<pipeline_sessions, active_connections, sockets>>

\* the second send_text returns or raises; the handler returns its payload
second_write_done(i) ==
    /\ UNCHANGED <<rateVars, appVars, valVars, regVars>>
    /\ i \in Busy
    /\ handlers[i].pc = "write2"
    /\ \E ok \in WriteOutcomes(handlers[i].ws) :
        active_connections' = send_text_done(active_connections, handlers[i].sid, ok)
    /\ handlers' = [handlers EXCEPT ![i] = Idle]
    /\ response' = Payload(handlers[i].kind, handlers[i].sid, handlers[i].file_id)
    /\ UNCHANGED <<pipeline_sessions, sockets>>

(***************************************************************************)
(* /ws/logs/{session_id}, main.py:263-272 with ConnectionManager.connect.  *)
(***************************************************************************)
Socket(pc, session_id, client) == [pc |-> pc, sid |-> session_id, client |-> client]

\* a client opens the websocket: the handler suspends in websocket.accept()
websocket_logs(ws, session_id) ==
    /\ UNCHANGED <<rateVars, appVars, valVars, regVars>>
    /\ sockets[ws].pc = "none"
    /\ sockets' = [sockets EXCEPT ![ws] = Socket("accept", session_id, "open")]
    /\ UNCHANGED <<pipeline_sessions, active_connections, handlers, response>>

\* mutant: a session id that is tracked already keeps its first socket
connect_keep_first(ws) ==
    /\ UNCHANGED <<rateVars, appVars, valVars, regVars>>
    /\ sockets[ws].pc = "accept"
    /\ active_connections' =
          IF sockets[ws].sid \in DOMAIN active_connections THEN active_connections
          ELSE Put(active_connections, sockets[ws].sid, ws)
    /\ sockets' = [sockets EXCEPT ![ws].pc = "write"]
    /\ UNCHANGED <<pipeline_sessions, handlers, response>>

\* accept returned: register the socket, start the "WebSocket connected" write
connect(ws) ==
    /\ UNCHANGED <<rateVars, appVars, valVars, regVars>>
    /\ sockets[ws].pc = "accept"
    /\ active_connections' = Put(active_connections, sockets[ws].sid, ws)
    /\ sockets' = [sockets EXCEPT ![ws].pc = "write"]
    /\ UNCHANGED <<pipeline_sessions, handlers, response>>

\* that write returns or raises; the handler enters its sleep loop for good
connect_write_done(ws) ==
    /\ UNCHANGED <<rateVars, appVars, valVars, regVars>>
    /\ sockets[ws].pc = "write"
    /\ \E ok \in WriteOutcomes(ws) :
        active_connections' = send_text_done(active_connections, sockets[ws].sid, ok)
    /\ sockets' = [sockets EXCEPT ![ws].pc = "loop"]
    /\ UNCHANGED <<pipeline_sessions, handlers, response>>

\* the client goes away; nothing in the handler's loop reads the socket
client_disconnect(ws) ==
    /\ UNCHANGED <<rateVars, appVars, valVars, regVars>>
    /\ sockets[ws].pc # "none"
    /\ sockets[ws].client = "open"
    /\ sockets' = [sockets EXCEPT ![ws].client = "closed"]
    /\ UNCHANGED <<pipeline_sessions, active_connections, handlers, response>>

(***************************************************************************)
(* Part II  The middleware stack of the dashboard, main.py:74-120.  The    *)
(*          application behind the stack is Part I; here it is the status  *)
(*          its handler answers with.                                      *)
(***************************************************************************)
MaxTracked == 6      \* request times remembered, all clients together

RATE_LIMITS(limit_type) ==
    IF limit_type = "upload" THEN [max_requests |-> 5, window |-> 60]
    ELSE [max_requests |-> 100, window |-> 60]

SECURITY_HEADERS ==
    {<<"X-Content-Type-Options", "nosniff">>,
     <<"X-Frame-Options", "DENY">>,
     <<"X-XSS-Protection", "1; mode=block">>,
     <<"Referrer-Policy", "strict-origin-when-cross-origin">>,
     <<"Content-Security-Policy", "default-src 'self'; ...; object-src 'none'">>,
     <<"Strict-Transport-Security", "max-age=31536000; includeSubDomains">>,
     <<"X-Permitted-Cross-Domain-Policies", "none">>}

\* the middlewares in the order the module registers them (lines 75, 85, 114)
Registered == <<"add_security_headers", "rate_limiting_middleware", "CORSMiddleware">>
\* each registration is put in front of the ones before it: the middleware
\* registered last is the outermost
MiddlewareStack == [k \in 1..Len(Registered) |-> Registered[Len(Registered) + 1 - k]]

UploadPath == <<"/api", "/upload">>
StatePath == <<"/api", "/state">>
Paths == {UploadPath, StatePath}
\* mutant: every path falls into the general category
LimitTypeGeneral(path) == "api"

\* 'upload' if '/upload' in path else 'api'
LimitType(path) == IF \E k \in 1..Len(path) : path[k] = "/upload" THEN "upload" ELSE "api"

HttpResponse(status, headers) == [status |-> status, headers |-> headers]

\* mutant: no request time is ever dropped
StillCountedForever(current_time, req_time, limit_type) == TRUE

\* the filter of "Clean old requests", main.py:95-98
StillCounted(current_time, req_time, limit_type) ==
    current_time - req_time < RATE_LIMITS(limit_type).window

\* the request times rate_limiting_middleware keeps for the client
Kept(limiter, client_ip, current_time, limit_type) ==
    SelectSeq(limiter[client_ip], LAMBDA t : StillCounted(current_time, t, limit_type))

\* the request enters middleware k of the stack and the response comes back
\* through it; behind the last middleware the handler answers handler_status
RECURSIVE Dispatch(_, _, _, _, _, _)
Dispatch(k, client_ip, path, current_time, limiter, handler_status) ==
    IF k > Len(MiddlewareStack)
    THEN [response |-> HttpResponse(handler_status, {}), limiter |-> limiter,
          handled |-> TRUE]
    ELSE IF MiddlewareStack[k] = "add_security_headers"
    THEN LET r == Dispatch(k + 1, client_ip, path, current_time, limiter, handler_status)
         IN  [r EXCEPT !.response.headers = @ \cup SECURITY_HEADERS]
    ELSE IF MiddlewareStack[k] = "rate_limiting_middleware"
    THEN LET limit_type == LimitType(path)
             kept == Kept(limiter, client_ip, current_time, limit_type)
         IN  IF Len(kept) >= RATE_LIMITS(limit_type).max_requests
             THEN [response |-> HttpResponse(429, {}),
                   limiter |-> [limiter EXCEPT ![client_ip] = kept],
                   handled |-> FALSE]
             ELSE Dispatch(k + 1, client_ip, path, current_time,
                           [limiter EXCEPT ![client_ip] = Append(kept, current_time)],
                           handler_status)
    ELSE \* CORSMiddleware passes the request on and adds no security header
         Dispatch(k + 1, client_ip, path, current_time, limiter, handler_status)

UploadOnlyClient == "10.0.0.1"     \* a client that sends upload requests only
AnyClient == "10.0.0.2"
Clients == {UploadOnlyClient, AnyClient}
PathsOf(client_ip) == IF client_ip = UploadOnlyClient THEN {UploadPath} ELSE Paths
HandlerStatuses == {200, 400}
TimePoints == {0, 59, 60, 61}      \* the clock readings of the model

RECURSIVE Tracked(_)
Tracked(clients) ==
    IF clients = {} THEN 0
    ELSE LET c == CHOOSE x \in clients : TRUE
         IN  Len(rate_limiter[c]) + Tracked(clients \ {c})

\* one request through the middleware stack
handle_request(client_ip, path, handler_status) ==
    /\ LET r == Dispatch(1, client_ip, path, now, rate_limiter, handler_status)
       IN  /\ rate_limiter' = r.limiter
           /\ http' = [client |-> client_ip, path |-> path, status |-> r.response.status,
                       headers |-> r.response.headers, handled |-> r.handled]
    /\ UNCHANGED <<now, dashVars, appVars, valVars, regVars>>

\* a request while the model's bound on remembered request times has room
http_request(client_ip, path, handler_status) ==
    /\ Tracked(Clients) < MaxTracked
    /\ handle_request(client_ip, path, handler_status)

\* the clock moves on to a later one of the given readings
TickTo(points) ==
    /\ \E t \in points : t > now /\ now' = t
    /\ UNCHANGED <<rate_limiter, http, dashVars, appVars, valVars, regVars>>

Tick == TickTo(TimePoints)

NoHttp == [client |-> NoValue, path |-> <<>>, status |-> 0, headers |-> {}, handled |-> FALSE]

RateInit ==
    /\ rate_limiter = [c \in Clients |-> <<>>]
    /\ now = 0
    /\ http = NoHttp

NextRate ==
    \/ \E c \in Clients : \E p \in PathsOf(c), st \in HandlerStatuses : http_request(c, p, st)
    \/ Tick

(***************************************************************************)
(* Part III The Data Pilot API (app/): users, tokens, user-owned data.     *)
(***************************************************************************)
MaxUsers == 2        \* rows of table users
MaxItemId == 2       \* the largest user_data id handed out

SECRET_KEY == "super-secret-key"          \* config.py:6
ACCESS_TOKEN_EXPIRE_MINUTES == 30

Emails == {"a@example.com", "b@example.com"}
UnknownEmail == "ghost@example.com"
Passwords == {"Password123!", "WrongPassword123!"}
Salts == {"salt1"}
Titles == {"t1", "t2"}
valid_types == {"text", "note", "idea", "task"}      \* data.py:43
DataTypeInputs == {"text", "task", "mood"}
DataIds == 1..MaxItemId

Max(S) == CHOOSE x \in S : \A y \in S : y <= x
\* an INTEGER PRIMARY KEY of SQLite: one more than the largest id in the table
NextId(rows) == IF rows = {} THEN 1 ELSE Max({r.id : r \in rows}) + 1

\* ---- auth_service.py -------------------------------------------------------
\* bcrypt: the hash carries its salt, verification recomputes the digest
hash_password(password, salt) ==
    [scheme |-> "bcrypt", salt |-> salt, digest |-> <<salt, password>>]

\* mutant: every password verifies
verify_password_any(plain_password, hashed_password) == TRUE

verify_password(plain_password, hashed_password) ==
    hashed_password.digest = <<hashed_password.salt, plain_password>>

\* ---- jose.jwt --------------------------------------------------------------
NoExp == -1
NoClaims == [sub |-> NoValue, exp |-> NoExp, iat |-> NoExp]
MissingArgument == "missing-argument"
NoToken == [form |-> "none", claims |-> NoClaims, key |-> NoValue]
GarbageToken == [form |-> "garbage", claims |-> NoClaims, key |-> NoValue]

jwt_encode(claims, key) == [form |-> "jwt", claims |-> claims, key |-> key]

Decoded(error, payload) == [error |-> error, payload |-> payload]

\* jose.jwt.decode(token, key, algorithms=None, options=None, ...): key is a
\* required parameter, so a call that passes none raises TypeError before
\* anything is decoded; otherwise JWTError for a token that is no JWT, for a
\* signature that key does not verify (unless verify_signature is off) and for
\* an exp in the past.
jwt_decode(token, key, verify_signature, current_time) ==
    IF key = MissingArgument THEN Decoded("TypeError", NoClaims)
    ELSE IF token.form # "jwt" THEN Decoded("JWTError", NoClaims)
    ELSE IF verify_signature /\ token.key # key THEN Decoded("JWTError", NoClaims)
    ELSE IF token.claims.exp # NoExp /\ current_time > token.claims.exp
    THEN Decoded("JWTError", NoClaims)
    ELSE Decoded("none", token.claims)

\* auth_service.py:22-43 (the server clock is taken to be UTC)
create_access_token(data, current_time) ==
    jwt_encode([sub |-> data.sub, exp |-> current_time + ACCESS_TOKEN_EXPIRE_MINUTES * 60,
                iat |-> current_time], SECRET_KEY)

\* auth_service.py:45-59
decode_access_token(token, current_time) ==
    LET d == jwt_decode(token, SECRET_KEY, TRUE, current_time)
    IN  IF d.error = "JWTError" THEN NoClaims ELSE d.payload

\* ---- user_crud.py ----------------------------------------------------------
NoUser == [id |-> 0, username |-> NoValue, email |-> NoValue,
           hashed_password |-> hash_password(NoValue, NoValue)]

\* select(User).where(User.email == email) ... .first()
get_user_by_email(rows, email) ==
    LET found == {u \in rows : u.email = email}
    IN  IF found = {} THEN NoUser
        ELSE CHOOSE u \in found : \A v \in found : u.id <= v.id

\* the uniqueness of users.email that create_user's IntegrityError handling
\* presupposes
EmailUnique(rows, email) == \A u \in rows : u.email # email

\* mutant: the commit succeeds whatever rows the table has
create_user_unconstrained(rows, email, username, hashed_password) ==
    rows \cup {[id |-> NextId(rows), username |-> username, email |-> email,
                hashed_password |-> hashed_password]}

\* user_crud.py:16-30: the rows after the commit, unchanged on IntegrityError
create_user(rows, email, username, hashed_password) ==
    IF EmailUnique(rows, email)
    THEN rows \cup {[id |-> NextId(rows), username |-> username, email |-> email,
                     hashed_password |-> hashed_password]}
    ELSE rows

\* auth_service.py:61-77
authenticate_user(rows, email, password) ==
    LET user == get_user_by_email(rows, email)
    IN  IF user = NoUser \/ ~verify_password(password, user.hashed_password)
        THEN NoUser ELSE user

\* ---- responses (error_handlers.py) ------------------------------------------
AppReply(op, status, message) ==
    [op |-> op, status |-> status, message |-> message, details |-> NoValue,
     caller |-> 0, email |-> NoValue, token |-> NoToken, items |-> {}, data_id |-> 0]
NoAppReply == AppReply("none", 0, NoValue)

\* ---- routers/auth.py -------------------------------------------------------
\* auth.py:61-67 with register_user: hash the password, insert, answer
register_user(email, username, password) ==
    /\ Cardinality(users) < MaxUsers
    /\ \E salt \in Salts :
        LET rows == create_user(users, email, username, hash_password(password, salt))
        IN  /\ users' = rows
            /\ IF rows = users
               THEN /\ app_response' = [AppReply("register", 500, "Failed to create user")
                                           EXCEPT !.email = email]
                    /\ UNCHANGED registered
               ELSE /\ app_response' = [AppReply("register", 201, NoValue)
                                           EXCEPT !.email = email]
                    /\ registered' = registered \cup {<<email, password>>}
    /\ UNCHANGED <<user_data, histVars, dashVars, rateVars, valVars, regVars>>

\* mutant: no look-up of the email before the insert
register_no_lookup(email, username, password) == register_user(email, username, password)

\* POST /auth/register, auth.py:46-67
register(email, username, password) ==
    IF get_user_by_email(users, email) # NoUser
    THEN /\ app_response' = [AppReply("register", 400, "Email already registered")
                                EXCEPT !.email = email]
         /\ UNCHANGED <<users, registered, user_data, histVars, dashVars, rateVars, valVars, regVars>>
    ELSE register_user(email, username, password)

\* ---- POST /auth/register with its awaits apart -------------------------------
\* a register request: where its coroutine stands, its body, its response
RegisterSlots == {1, 2}
Registration(pc, email, password, status) ==
    [pc |-> pc, email |-> email, password |-> password, status |-> status]
NoRegistration == Registration("none", NoValue, NoValue, 0)
RegInit == registrations = [r \in RegisterSlots |-> NoRegistration]

\* auth.py:54-60: await get_user_by_email(...), then the 400 or the way on
register_lookup(r, email, password) ==
    /\ registrations[r].pc = "none"
    /\ IF get_user_by_email(users, email) # NoUser
       THEN /\ registrations' =
                  [registrations EXCEPT ![r] = Registration("done", email, password, 400)]
            /\ app_response' = [AppReply("register", 400, "Email already registered")
                                   EXCEPT !.email = email]
       ELSE /\ registrations' =
                  [registrations EXCEPT ![r] = Registration("insert", email, password, 0)]
            /\ UNCHANGED app_response
    /\ UNCHANGED <<users, registered, user_data, histVars, dashVars, rateVars, valVars>>

\* auth.py:61-67 with register_user and create_user: the commit and the reply
register_commit(r) ==
    /\ registrations[r].pc = "insert"
    /\ \E salt \in Salts :
        LET req == registrations[r]
            rows == create_user(users, req.email, "user", hash_password(req.password, salt))
            status == IF rows = users THEN 500 ELSE 201
        IN  /\ users' = rows
            /\ registrations' = [registrations EXCEPT ![r] =
                                    Registration("done", req.email, req.password, status)]
            /\ app_response' =
                  [AppReply("register", status,
                            IF status = 500 THEN "Failed to create user" ELSE NoValue)
                      EXCEPT !.email = req.email]
            /\ registered' = IF status = 201
                             THEN registered \cup {<<req.email, req.password>>}
                             ELSE registered
    /\ UNCHANGED <<user_data, histVars, dashVars, rateVars, valVars>>

NextRegister ==
    \/ \E r \in RegisterSlots, e \in Emails, pw \in Passwords : register_lookup(r, e, pw)
    \/ \E r \in RegisterSlots : register_commit(r)

\* POST /auth/login, auth.py:16-43
login(email, password) ==
    /\ LET user == authenticate_user(users, email, password)
       IN  app_response' =
              IF user = NoUser
              THEN [AppReply("login", 401, "Invalid email or password") EXCEPT !.email = email]
              ELSE [AppReply("login", 200, NoValue) EXCEPT
                       !.email = user.email, !.caller = user.id,
                       !.token = create_access_token([sub |-> user.email], now)]
    /\ UNCHANGED <<users, registered, user_data, histVars, dashVars, rateVars, valVars, regVars>>

\* POST /auth/logout, auth.py:70-81: the handler takes no dependency and reads
\* no token; it deletes the cookie "session" from its response and answers.
\* token is the bearer token the client sends along (test_integration.py:165-168)
logout(token) ==
    /\ app_response' = [AppReply("logout", 200, "Successfully logged out")
                            EXCEPT !.token = token]
    /\ logged_out' = logged_out \cup {token}
    /\ UNCHANGED <<users, registered, user_data, deleted, dashVars, rateVars, valVars, regVars>>

\* ---- core/security.py ------------------------------------------------------
Authenticated(status, user, message) ==
    [status |-> status, user |-> user, message |-> message]

\* get_current_user, security.py:14-77, behind oauth2_scheme
get_current_user(token, rows, current_time) ==
    IF token.form = "none"
    THEN Authenticated(401, NoUser, "Not authenticated")       \* OAuth2PasswordBearer
    ELSE LET unverified == jwt_decode(token, MissingArgument, FALSE, current_time)
         IN
         IF unverified.error = "TypeError"
         THEN \* no except clause catches it: general_exception_handler answers
              Authenticated(500, NoUser, "An unexpected error occurred")
         ELSE IF unverified.error = "JWTError"
         THEN Authenticated(401, NoUser, "Could not validate credentials")
         ELSE IF unverified.payload.exp \notin {NoExp, 0}      \* payload.get("exp") is truthy
                 /\ current_time > unverified.payload.exp
         THEN Authenticated(401, NoUser, "Token has expired")
         ELSE LET verified == jwt_decode(token, SECRET_KEY, TRUE, current_time)
                  user == get_user_by_email(rows, verified.payload.sub)
              IN  IF verified.error # "none" \/ verified.payload.sub = NoValue \/ user = NoUser
                  THEN Authenticated(401, NoUser, "Could not validate credentials")
                  ELSE Authenticated(200, user, NoValue)

ProtectedEndpoints ==
    {"GET /auth/me", "POST /auth/refresh", "GET /users/me", "PUT /users/me",
     "POST /data", "GET /data", "GET /data/id", "PUT /data/id", "DELETE /data/id"}

\* a request to a protected endpoint up to the point where FastAPI has resolved
\* Depends(get_current_user): it is answered with the error, or the handler
\* is entered with the user
protected_request(endpoint, token) ==
    /\ LET a == get_current_user(token, users, now)
       IN  app_response' = [AppReply(endpoint, a.status, a.message) EXCEPT
                               !.token = token, !.caller = a.user.id]
    /\ UNCHANGED <<users, registered, user_data, histVars, dashVars, rateVars, valVars, regVars>>

\* ---- routers/data.py --------------------------------------------------------
\* the handlers are entered with the current_user that FastAPI injects

\* mutant: the row is looked up by id alone
select_any(rows, data_id, current_user) == {d \in rows : d.id = data_id}

\* select(UserData).where(UserData.id == data_id,
\*                        UserData.user_id == current_user.id), data.py:85-88
select_owned(rows, data_id, current_user) ==
    {d \in rows : d.id = data_id /\ d.user_id = current_user.id}

\* select(UserData).where(UserData.user_id == current_user.id), data.py:73-76
select_of_user(rows, current_user) == {d \in rows : d.user_id = current_user.id}

DataReply(op, status, message, current_user, data_id, items) ==
    [AppReply(op, status, message) EXCEPT
        !.caller = current_user.id, !.data_id = data_id, !.items = items]

\* POST /data, data.py:35-66
create_data(current_user, title, data_type) ==
    /\ NextId(user_data) <= MaxItemId
    /\ IF data_type \notin valid_types
       THEN \* the ValidationException is raised inside the try and caught by
            \* "except Exception", which raises DatabaseException
            /\ app_response' =
                  [DataReply("create_data", 500, "Failed to create data", current_user, 0, {})
                      EXCEPT !.details = "Invalid data type"]
            /\ UNCHANGED user_data
       ELSE LET new_data == [id |-> NextId(user_data), title |-> title,
                             data_type |-> data_type, user_id |-> current_user.id]
            IN  /\ user_data' = user_data \cup {new_data}
                /\ app_response' =
                      DataReply("create_data", 200, NoValue, current_user, new_data.id, {new_data})
    /\ UNCHANGED <<users, registered, histVars, dashVars, rateVars, valVars, regVars>>

\* GET /data, data.py:68-77 (the handler declares no query parameter)
get_user_data(current_user) ==
    /\ app_response' = DataReply("get_user_data", 200, NoValue, current_user, 0,
                                 select_of_user(user_data, current_user))
    /\ UNCHANGED <<users, registered, user_data, histVars, dashVars, rateVars, valVars, regVars>>

\* GET /data?data_type=t: the handler has no parameter of that name, so the
\* query string is dropped before the handler is called
get_user_data_query(current_user, data_type) == get_user_data(current_user)

\* GET /data/{data_id}, data.py:79-94
get_data(current_user, data_id) ==
    /\ LET found == select_owned(user_data, data_id, current_user)
       IN  app_response' =
              IF found = {}
              THEN DataReply("get_data", 404, "Data not found", current_user, data_id, {})
              ELSE DataReply("get_data", 200, NoValue, current_user, data_id, found)
    /\ UNCHANGED <<users, registered, user_data, histVars, dashVars, rateVars, valVars, regVars>>

\* PUT /data/{data_id}, data.py:96-146
update_data(current_user, data_id, title, data_type) ==
    /\ LET found == select_owned(user_data, data_id, current_user)
       IN  IF found = {}
           THEN /\ app_response' =
                      DataReply("update_data", 404, "Data not found", current_user, data_id, {})
                /\ UNCHANGED user_data
           ELSE IF data_type \notin valid_types
           THEN /\ app_response' =
                      [DataReply("update_data", 500, "Failed to update data", current_user,
                                 data_id, {}) EXCEPT !.details = "Invalid data type"]
                /\ UNCHANGED user_data
           ELSE /\ user_data' =
                      {IF d.id = data_id /\ d.user_id = current_user.id
                       THEN [d EXCEPT !.title = title, !.data_type = data_type]
                       ELSE d : d \in user_data}
                /\ app_response' =
                      DataReply("update_data", 200, NoValue, current_user, data_id,
                                {d \in user_data' : d.id = data_id})
    /\ UNCHANGED <<users, registered, histVars, dashVars, rateVars, valVars, regVars>>

\* DELETE /data/{data_id}, data.py:148-171
delete_data(current_user, data_id) ==
    /\ LET found == select_owned(user_data, data_id, current_user)
       IN  IF found = {}
           THEN /\ app_response' =
                      DataReply("delete_data", 404, "Data not found", current_user, data_id, {})
                /\ UNCHANGED <<user_data, deleted>>
           ELSE /\ user_data' = user_data \ found
                /\ deleted' = deleted \cup {<<current_user.id, data_id>>}
                /\ app_response' =
                      DataReply("delete_data", 200, "Data deleted successfully", current_user,
                                data_id, {})
    /\ UNCHANGED <<users, registered, logged_out, dashVars, rateVars, valVars, regVars>>

\* ---- database failures ------------------------------------------------------
\* str(e) of the exception a failing database call raises
ExceptionText == "(sqlite3.OperationalError) database is locked"

\* create_data when db.commit() raises, data.py:58-66
create_data_db_error(current_user, title, data_type) ==
    /\ data_type \in valid_types
    /\ app_response' =
          [DataReply("create_data", 500, "Failed to create data", current_user, 0, {})
              EXCEPT !.details = ExceptionText]
    /\ UNCHANGED <<users, registered, user_data, histVars, dashVars, rateVars, valVars, regVars>>

\* update_data when the UPDATE or its commit raises, data.py:124-146
update_data_db_error(current_user, data_id, title, data_type) ==
    /\ select_owned(user_data, data_id, current_user) # {}
    /\ data_type \in valid_types
    /\ app_response' =
          [DataReply("update_data", 500, "Failed to update data", current_user, data_id, {})
              EXCEPT !.details = ExceptionText]
    /\ UNCHANGED <<users, registered, user_data, histVars, dashVars, rateVars, valVars, regVars>>

\* delete_data when the DELETE or its commit raises, data.py:163-171: the
\* details carry the data_id only
delete_data_db_error(current_user, data_id) ==
    /\ select_owned(user_data, data_id, current_user) # {}
    /\ app_response' =
          DataReply("delete_data", 500, "Failed to delete data", current_user, data_id, {})
    /\ UNCHANGED <<users, registered, user_data, histVars, dashVars, rateVars, valVars, regVars>>

\* get_data when its SELECT raises: no try block, database_exception_handler
\* answers (data.py:85-88, error_handlers.py:109-127)
get_data_db_error(current_user, data_id) ==
    /\ app_response' =
          DataReply("get_data", 500, "Database operation failed", current_user, data_id, {})
    /\ UNCHANGED <<users, registered, user_data, histVars, dashVars, rateVars, valVars, regVars>>

\* PUT /users/me, users.py:20-44; commit_ok: whether session.commit() returns
update_current_user(current_user, username, commit_ok) ==
    /\ IF commit_ok
       THEN /\ users' = (users \ {current_user})
                           \cup {[current_user EXCEPT !.username = username]}
            /\ app_response' = [AppReply("update_current_user", 200, NoValue) EXCEPT
                                   !.caller = current_user.id, !.email = current_user.email]
       ELSE /\ app_response' =
                  [AppReply("update_current_user", 500, "Failed to update user profile")
                      EXCEPT !.caller = current_user.id, !.details = ExceptionText]
            /\ UNCHANGED users
    /\ UNCHANGED <<registered, user_data, histVars, dashVars, rateVars, valVars, regVars>>

\* the tokens a client may present
SignedToken(email, exp, key) == jwt_encode([sub |-> email, exp |-> exp, iat |-> 0], key)
TokenInputs ==
    {NoToken, GarbageToken,
     SignedToken("a@example.com", ACCESS_TOKEN_EXPIRE_MINUTES * 60, "another-key"),
     SignedToken("a@example.com", 1, SECRET_KEY),
     SignedToken(UnknownEmail, ACCESS_TOKEN_EXPIRE_MINUTES * 60, SECRET_KEY)}
    \cup {SignedToken(e, ACCESS_TOKEN_EXPIRE_MINUTES * 60, SECRET_KEY) : e \in Emails}

\* the tokens login issues at time 0
HeldTokens == {create_access_token([sub |-> e], 0) : e \in Emails}

AppTick ==
    /\ \E t \in {Max(TimePoints)} : t > now /\ now' = t
    /\ UNCHANGED <<rate_limiter, http, dashVars, appVars, valVars, regVars>>

\* accounts and tokens
NextAuth ==
    \/ \E e \in Emails, p \in Passwords : register(e, "user", p)
    \/ \E e \in Emails \cup {UnknownEmail}, p \in Passwords : login(e, p)
    \/ \E ep \in ProtectedEndpoints, t \in TokenInputs : protected_request(ep, t)
    \/ \E t \in HeldTokens : logout(t)
    \/ AppTick

\* the data handlers, entered with a stored user as current_user
NextData ==
    \/ \E e \in Emails : register(e, "user", "Password123!")
    \/ \E u \in users, t \in Titles, dt \in DataTypeInputs : create_data(u, t, dt)
    \/ \E u \in users : get_user_data(u)
    \/ \E u \in users, i \in DataIds : get_data(u, i)
    \/ \E u \in users, i \in DataIds, t \in Titles, dt \in DataTypeInputs :
          update_data(u, i, t, dt)
    \/ \E u \in users, i \in DataIds : delete_data(u, i)

\* the data handlers with one title and type per operation and the two
\* accounts registered in one order: what an item holds and which account got
\* which id play no part in whose an item is
NextItems ==
    \/ \E e \in Emails :
          /\ (e = "b@example.com") => (users # {})
          /\ register(e, "user", "Password123!")
    \/ \E u \in users : create_data(u, "t1", "text")
    \/ \E u \in users : get_user_data(u)
    \/ \E u \in users, i \in DataIds : get_data(u, i)
    \/ \E u \in users, i \in DataIds : update_data(u, i, "t2", "task")
    \/ \E u \in users, i \in DataIds : delete_data(u, i)

\* the data handlers and the profile update of one user, with a database
\* that may fail
NextFault ==
    \/ register("a@example.com", "user", "Password123!")
    \/ \E u \in users : create_data(u, "t1", "text") \/ create_data_db_error(u, "t1", "text")
    \/ \E u \in users, i \in DataIds : get_data(u, i) \/ get_data_db_error(u, i)
    \/ \E u \in users, i \in DataIds :
          update_data(u, i, "t2", "text") \/ update_data_db_error(u, i, "t2", "text")
    \/ \E u \in users, i \in DataIds : delete_data(u, i) \/ delete_data_db_error(u, i)
    \/ \E u \in users, ok \in BOOLEAN : update_current_user(u, "renamed", ok)

(***************************************************************************)
(* Specifications of the dashboard.                                        *)
(***************************************************************************)
NoReply == Error("none", NoId, 0)

DashInit ==
    /\ pipeline_sessions = <<>>
    /\ active_connections = <<>>
    /\ handlers = [i \in Slots |-> Idle]
    /\ sockets = [ws \in WebSockets |-> Socket("none", NoId, "open")]
    /\ response = NoReply

AppInit ==
    /\ users = {}
    /\ user_data = {}
    /\ registered = {}
    /\ logged_out = {}
    /\ deleted = {}
    /\ app_response = NoAppReply

\* no validator has been called
NoCheck == [filename |-> <<>>, returned |-> FALSE, valid |-> FALSE]
ValInit == checked = NoCheck

Init == DashInit /\ RateInit /\ AppInit /\ ValInit /\ RegInit

Requests(lim, stages) ==
    \/ \E s \in SessionIds : get_pipeline_state(lim, s)
    \/ \E s \in SessionIds, c \in CredentialInputs : upload_file(lim, s, c)
    \/ \E s \in SessionIds, f \in FileIdInputs, c \in CredentialInputs :
          preview_data(lim, s, f, c)
    \/ \E st \in stages, s \in SessionIds : stage_call(lim, st, s)

Progress(wss) ==
    \/ \E i \in Slots : first_write_done(i)
    \/ \E i \in Slots : sleep_done(i)
    \/ \E i \in Slots : second_write_done(i)
    \/ \E ws \in wss, s \in SessionIds : websocket_logs(ws, s)
    \/ \E ws \in wss : connect(ws)
    \/ \E ws \in wss : connect_write_done(ws)
    \/ \E ws \in wss : client_disconnect(ws)

\* concurrent requests, interleaved at the awaits
ConcurrentStages == {"clean"}
Next == Requests(MaxInFlight, ConcurrentStages) \/ Progress({"ws1"})
Spec == Init /\ [][Next]_vars

\* serial usage: a request is sent when the one before it has been answered
\* (the seven sleep-stage handlers differ in the stage name and index only)
SerialStages == {"clean", "schema"}
NextSerial == Requests(1, SerialStages) \/ Progress({"ws1"})
SpecSerial == Init /\ [][NextSerial]_vars

\* the upload and preview handlers with the user dictionary as their input:
\* callers of two identities, every request with credentials, one at a time
Callers == {[user_id |-> id, token |-> "token"] : id \in {"test_user", "other_user"}}
NextOwners ==
    \/ \E s \in SessionIds : get_pipeline_state(1, s)
    \/ \E s \in SessionIds, u \in Callers : upload_file_as(1, s, "token", u)
    \/ \E s \in SessionIds, f \in FileIdInputs, u \in Callers :
          preview_data_as(1, s, f, "token", u)
    \/ \E i \in Slots : first_write_done(i)
    \/ \E i \in Slots : second_write_done(i)
    \/ \E s \in SessionIds : websocket_logs("ws1", s)
    \/ connect("ws1")
    \/ connect_write_done("ws1")
    \/ client_disconnect("ws1")
SpecOwners == Init /\ [][NextOwners]_vars

\* every kind of operation, requests one at a time, two websockets
NextFrame ==
    \/ \E s \in SessionIds : get_pipeline_state(1, s)
    \/ \E s \in SessionIds : upload_file(1, s, "token")
    \/ \E s \in SessionIds, f \in GenFileIds : preview_data(1, s, f, "token")
    \/ \E s \in SessionIds : stage_call(1, "clean", s)
    \/ Progress(WebSockets)
SpecFrame == Init /\ [][NextFrame]_vars

\* the filename validator applied to names of up to MaxNameLen characters
\* over letters, a Turkish letter, separators, whitespace and characters
\* outside the pattern, and to names around the length limit
MaxNameLen == 3
NameChars == {"a", "U+0130", ".", "/", "\\", " ", "\n", "U+00E9", "U+D800"}
RaporName ==
    <<"r", "a", "p", "o", "r", "_", "U+0130", "U+015F", "l", "e", "m", ".", "c", "s", "v">>
PasswdName == <<".", ".", "/", "e", "t", "c", "/", "p", "a", "s", "s", "w", "d">>
FilenameInputs ==
    UNION {[1..n -> NameChars] : n \in 0..MaxNameLen}
        \cup {RaporName, PasswdName}
        \cup {Rep("a", n) : n \in {MaxFilenameLen, MaxFilenameLen + 1}}
        \cup {Rep("a", n) \o <<"\n">> : n \in {MaxFilenameLen - 1, MaxFilenameLen}}

\* the call is made with one of the names and returns
InitValidate ==
    /\ DashInit /\ RateInit /\ AppInit /\ RegInit
    /\ checked \in {[NoCheck EXCEPT !.filename = f] : f \in FilenameInputs}

validate_filename_call ==
    /\ ~checked.returned
    /\ checked' = [checked EXCEPT !.returned = TRUE,
                                  !.valid = validate_filename(checked.filename)]
    /\ UNCHANGED <<dashVars, rateVars, appVars, regVars>>

NextValidate == validate_filename_call
SpecValidate == InitValidate /\ [][NextValidate]_vars

\* upload and preview, one request at a time and with credentials, over
\* well-formed and malformed identifiers; ids arrive URL-decoded, so "%0A" in
\* the query string is a newline in the handler's argument
NewlineSid == UuidSid \o <<"\n">>
UnderscoreSid == Rep("a", SessionIdLen - 1) \o <<"_">>
SessionIdInputs == SessionIds \cup {NewlineSid, UnderscoreSid}
NewlineFileId == <<"f", "i", "l", "e", "_", "1", "\n">>
FileIdInputsAll == FileIdInputs \cup {NewlineFileId}
NextInputs ==
    \/ \E s \in SessionIdInputs : get_pipeline_state(1, s)
    \/ \E s \in SessionIdInputs : upload_file(1, s, "token")
    \/ \E s \in SessionIdInputs, f \in FileIdInputsAll : preview_data(1, s, f, "token")
SpecInputs == Init /\ [][NextInputs]_vars

\* requests for one session id in flight together: state reads, uploads and
\* two of the sleep stages, with one websocket of that session
SharedStages == {"clean", "model"}
NextShared ==
    \/ get_pipeline_state(MaxInFlight, UuidSid)
    \/ upload_file(MaxInFlight, UuidSid, "token")
    \/ \E st \in SharedStages : stage_call(MaxInFlight, st, UuidSid)
    \/ \E i \in Slots : first_write_done(i)
    \/ \E i \in Slots : sleep_done(i)
    \/ \E i \in Slots : second_write_done(i)
    \/ websocket_logs("ws1", UuidSid)
    \/ connect("ws1")
    \/ connect_write_done("ws1")
    \/ client_disconnect("ws1")
SpecShared == Init /\ [][NextShared]_vars

\* stage calls, one at a time, while two websockets come and go
NextSockets ==
    \/ \E s \in SessionIds : get_pipeline_state(1, s)
    \/ \E s \in SessionIds : stage_call(1, "clean", s)
    \/ Progress(WebSockets)
SpecSockets == Init /\ [][NextSockets]_vars

\* one client sending requests of both categories up to the general limit:
\* the list of a client never holds more than the general limit of entries
WindowPoints == {0, 59, 60}
NextLimits ==
    \/ \E p \in Paths : handle_request(AnyClient, p, 200)
    \/ TickTo(WindowPoints)
SpecLimits == Init /\ [][NextLimits]_vars

\* two register requests interleaved at their awaits
SpecRegister == Init /\ [][NextRegister]_vars

\* the middleware stack
SpecRate == Init /\ [][NextRate]_vars

\* the Data Pilot API
SpecAuth == Init /\ [][NextAuth]_vars
SpecData == Init /\ [][NextData]_vars
SpecItems == Init /\ [][NextItems]_vars
SpecFault == Init /\ [][NextFault]_vars

(***************************************************************************)
(* Properties of the session store and the step log.                       *)
(***************************************************************************)
Known(s) == s \in DOMAIN pipeline_sessions
StepsOf(sessions, s) == sessions[s].steps

\* the steps in which a stage call on session s is decided: it is rejected,
\* or it passes the place of its append
UploadStep(s) == \E c \in CredentialInputs : upload_file(MaxInFlight, s, c)
UploadAccepted(s) ==
    /\ validate_session_id(s)
    /\ \E c \in CredentialInputs \ {NoCredentials} : upload_file(MaxInFlight, s, c)
PreviewResumed(s) ==
    \E i \in Slots :
        handlers[i].kind = "preview" /\ handlers[i].sid = s /\ first_write_done(i)
PreviewAnswered(s) ==
    /\ \E f \in FileIdInputs, c \in CredentialInputs : preview_data(MaxInFlight, s, f, c)
    /\ handlers' = handlers
PreviewStep(s) == PreviewAnswered(s) \/ PreviewResumed(s)
PreviewAccepted(s) == (PreviewAnswered(s) /\ response'.status = 200) \/ PreviewResumed(s)
SleepStep(s) == \E i \in Slots : handlers[i].sid = s /\ sleep_done(i)

\* C1: the first get_pipeline_state of an unknown session id inserts a record
\* with current_step 0 and no steps and returns it; a get_pipeline_state of an
\* id whose record is still the one the previous response returned returns
\* the identical record and leaves the store unchanged.
C1_StateReadIdempotent ==
    [][\A s \in SessionIds : get_pipeline_state(MaxInFlight, s) =>
          /\ Known(s)'
          /\ response'.record = pipeline_sessions'[s]
          /\ ~Known(s) =>
                /\ pipeline_sessions'[s].current_step = 0
                /\ pipeline_sessions'[s].steps = <<>>
                /\ \A o \in DOMAIN pipeline_sessions :
                      pipeline_sessions'[o] = pipeline_sessions[o]
          /\ Known(s) =>
                /\ pipeline_sessions' = pipeline_sessions
                /\ (response.op = "state" /\ response.sid = s
                      /\ response.record = pipeline_sessions[s])
                    => response'.record = response.record]_vars

C1_Witness ==
    /\ response.op = "state"
    /\ Known(response.sid)
    /\ response.record = pipeline_sessions[response.sid]
    /\ response.record.current_step = 0
    /\ response.record.steps = <<>>

\* C2 as stated: every stage call on a known session id, the rejected ones
\* included, makes the session's steps one longer.
C2_EveryStageCallAppends ==
    [][\A s \in SessionIds :
          (Known(s) /\ (UploadStep(s) \/ PreviewStep(s) \/ SleepStep(s))) =>
              Len(StepsOf(pipeline_sessions', s)) = Len(StepsOf(pipeline_sessions, s)) + 1]_vars

\* C2 amended: a stage call on a known session id that is not rejected (no
\* missing credentials, no malformed session or file id) makes the session's
\* steps exactly one longer, the new last step being that stage's.
C2_AcceptedStageCallAppendsOne ==
    [][\A s \in SessionIds :
          (Known(s) /\ (UploadAccepted(s) \/ PreviewAccepted(s) \/ SleepStep(s))) =>
              /\ Len(StepsOf(pipeline_sessions', s)) = Len(StepsOf(pipeline_sessions, s)) + 1
              /\ SubSeq(StepsOf(pipeline_sessions', s), 1, Len(StepsOf(pipeline_sessions, s)))
                    = StepsOf(pipeline_sessions, s)]_vars

C2_Witness ==
    \E s \in DOMAIN pipeline_sessions :
        /\ pipeline_sessions[s].user_id = NoValue     \* inserted by get_pipeline_state
        /\ Len(pipeline_sessions[s].steps) = MaxSteps
        /\ response.sid = s /\ response.op \in Stages /\ response.status = 200

\* C3 as stated: in serial usage current_step is the number of stage calls
\* recorded on the session so far.
C3_CurrentStepCountsCalls ==
    \A s \in DOMAIN pipeline_sessions :
        pipeline_sessions[s].current_step = Len(pipeline_sessions[s].steps)

\* C3 amended: current_step is the number of recorded stage calls when the
\* recorded stages are the first ones of the pipeline in order (upload,
\* preview, clean, ...); otherwise it is the index of the last stage only.
InPipelineOrder(steps) == \A k \in 1..Len(steps) : StageIndex(steps[k].step) = k
C3_InOrderCurrentStepCountsCalls ==
    \A s \in DOMAIN pipeline_sessions :
        InPipelineOrder(pipeline_sessions[s].steps) =>
            pipeline_sessions[s].current_step = Len(pipeline_sessions[s].steps)

C3_Witness ==
    \E s \in DOMAIN pipeline_sessions :
        /\ Len(pipeline_sessions[s].steps) = MaxSteps
        /\ InPipelineOrder(pipeline_sessions[s].steps)
        /\ pipeline_sessions[s].current_step = MaxSteps
        /\ Busy = {}

\* C4: every stage request for an unknown session id that is not rejected
\* (credentials present, identifiers well-formed) creates the session's record
\* and appends its step to it.
C4_EveryStageCreatesAndAppends ==
    [][\A s \in SessionIds :
          (~Known(s) /\ (UploadAccepted(s) \/ PreviewAccepted(s) \/ SleepStep(s))) =>
              /\ Known(s)'
              /\ Len(StepsOf(pipeline_sessions', s)) = 1]_vars

(***************************************************************************)
(* Properties of the middleware stack.                                     *)
(***************************************************************************)
UploadRequest == \E st \in HandlerStatuses : http_request(UploadOnlyClient, UploadPath, st)
Aged(times, lo, hi) == {k \in 1..Len(times) : now - times[k] >= lo /\ now - times[k] <= hi}
Admitted(r) == r.handled /\ r.status # 429

\* C5: for a client that sends upload requests only, an upload request is
\* admitted when fewer than 5 of its requests were admitted in the last 60
\* seconds, is answered 429 when 5 were admitted less than 60 seconds ago, and
\* is admitted again when the earliest of the 5 that filled the window is 61
\* seconds old or older.
C5_UploadWindow ==
    [][UploadRequest =>
          LET times == rate_limiter[UploadOnlyClient]
              lim == RATE_LIMITS("upload")
          IN  /\ Cardinality(Aged(times, 0, lim.window)) < lim.max_requests
                    => Admitted(http')
              /\ Cardinality(Aged(times, 0, lim.window - 1)) >= lim.max_requests
                    => (http'.status = 429 /\ ~http'.handled)
              /\ (Len(times) = lim.max_requests /\ now - times[1] >= lim.window + 1)
                    => Admitted(http')]_vars

\* the client's 5 admitted requests spread over less than 60 seconds and its
\* 6th answered 429
C5_Witness ==
    /\ http.client = UploadOnlyClient
    /\ http.status = 429
    /\ Len(rate_limiter[UploadOnlyClient]) = RATE_LIMITS("upload").max_requests
    /\ rate_limiter[UploadOnlyClient][1] < rate_limiter[UploadOnlyClient][5]
    /\ now - rate_limiter[UploadOnlyClient][1] < RATE_LIMITS("upload").window

\* C6: every HTTP response of the dashboard carries all of
\* SECURITY_HEADERS, the 429 of rate_limiting_middleware included.
C6_EveryResponseCarriesSecurityHeaders ==
    http.status # 0 => SECURITY_HEADERS \subseteq http.headers

(***************************************************************************)
(* Properties of the Data Pilot API.                                       *)
(***************************************************************************)
ItemsOfOthers(rows, u) == {d \in rows : d.user_id # u.id}
\* the step is the data call op of user u (with item id i): every data
\* handler writes its name, its caller and the item id into its response
DataCallOf(u, ops) == app_response'.op \in ops /\ app_response'.caller = u.id
DataOps == {"create_data", "get_user_data", "get_data", "update_data", "delete_data"}

\* C7: whatever happened before, get_data, update_data and delete_data called
\* by a user with the id of an item another user owns answer 404 and leave
\* user_data unchanged, get_user_data never lists an item of another user, and
\* no data call of a user changes the items of the others.
C7_ItemsScopedToOwner ==
    [][\A b \in users :
          /\ \A d \in ItemsOfOthers(user_data, b) :
                /\ (DataCallOf(b, {"get_data", "update_data", "delete_data"})
                       /\ app_response'.data_id = d.id)
                      => (app_response'.status = 404 /\ user_data' = user_data)
                /\ DataCallOf(b, {"get_user_data"}) => d \notin app_response'.items
          /\ DataCallOf(b, DataOps) =>
                ItemsOfOthers(user_data', b) = ItemsOfOthers(user_data, b)]_vars

C7_Witness ==
    /\ app_response.op \in {"get_data", "update_data", "delete_data"}
    /\ app_response.status = 404
    /\ \E d \in user_data :
          d.id = app_response.data_id /\ d.user_id # app_response.caller

WithEmail(rows, email) == {u \in rows : u.email = email}

\* C8: register with an email that belongs to a stored user answers 400 and
\* creates no user: exactly one stored user has that email afterwards.
C8_DuplicateEmailRejected ==
    [][\A e \in Emails, p \in Passwords :
          (WithEmail(users, e) # {} /\ register(e, "user", p)) =>
              /\ app_response'.status = 400
              /\ users' = users
              /\ Cardinality(WithEmail(users', e)) = 1]_vars

C8_Witness ==
    /\ app_response.op = "register"
    /\ app_response.status = 400
    /\ Cardinality(WithEmail(users, app_response.email)) = 1
    /\ Cardinality(users) = 1

\* C9: login with an email and the password it was registered with answers 200
\* with a bearer token whose payload sub is that email; login with a registered
\* email and another password, or with an unregistered email, answers 401 and
\* issues no token.
C9_LoginIssuesTokenForOwner ==
    [][\A e \in Emails \cup {UnknownEmail}, p \in Passwords :
          login(e, p) =>
              IF <<e, p>> \in registered
              THEN /\ app_response'.status = 200
                   /\ decode_access_token(app_response'.token, now).sub = e
              ELSE /\ app_response'.status = 401
                   /\ app_response'.token = NoToken]_vars

C9_Witness ==
    /\ app_response.op = "login"
    /\ app_response.status = 200
    /\ app_response.token.claims.sub = app_response.email
    /\ \E p \in Passwords : <<app_response.email, p>> \in registered

\* the tokens C10 is about: none, malformed, wrongly signed, expired, or with
\* a sub that matches no stored user
BadToken(token) ==
    \/ token.form # "jwt"
    \/ token.key # SECRET_KEY
    \/ now > token.claims.exp
    \/ WithEmail(users, token.claims.sub) = {}

\* C10: a request to a protected endpoint with such a token is
\* answered 401 and leaves users and data items unchanged.
C10_BadTokenAnswered401 ==
    [][\A ep \in ProtectedEndpoints, t \in TokenInputs :
          (BadToken(t) /\ protected_request(ep, t)) =>
              /\ app_response'.status = 401
              /\ users' = users
              /\ user_data' = user_data]_vars

\* C11: once a token has been presented to logout, every later request to a
\* protected endpoint that presents it is answered 401.
C11_TokenRejectedAfterLogout ==
    [][\A ep \in ProtectedEndpoints, t \in logged_out :
          protected_request(ep, t) => app_response'.status = 401]_vars

\* C12: create_data, and update_data of an item the caller owns, called with
\* a data_type outside valid_types are answered 400 or 422 and leave user_data
\* unchanged.
C12_InvalidTypeIsValidationError ==
    [][\A u \in users, t \in Titles, dt \in DataTypeInputs \ valid_types :
          /\ create_data(u, t, dt) =>
                (app_response'.status \in {400, 422} /\ user_data' = user_data)
          /\ \A d \in select_of_user(user_data, u) :
                update_data(u, d.id, t, dt) =>
                    (app_response'.status \in {400, 422} /\ user_data' = user_data)]_vars

\* C13: no 500 response carries the text of the exception that caused it, in
\* its message or in its details.
C13_No500LeaksExceptionText ==
    app_response.status = 500 =>
        (app_response.message # ExceptionText /\ app_response.details # ExceptionText)

(***************************************************************************)
(* C14  The connection manager tracks one websocket per session id: when   *)
(* a websocket connects for a session id, the socket tracked for that id   *)
(* afterwards is the connecting one, whatever was tracked before; the      *)
(* entries of other ids stay, and no other socket (the overwritten one     *)
(* included) is closed or otherwise touched.                               *)
(***************************************************************************)
C14_LaterConnectionOverwrites ==
    [][\A ws \in WebSockets :
          (sockets[ws].pc = "accept" /\ sockets'[ws].pc = "write") =>
              LET s == sockets[ws].sid
              IN  /\ DOMAIN active_connections' = DOMAIN active_connections \cup {s}
                  /\ active_connections'[s] = ws
                  /\ \A o \in DOMAIN active_connections \ {s} :
                        active_connections'[o] = active_connections[o]
                  /\ \A o \in WebSockets \ {ws} : sockets'[o] = sockets[o]]_vars

\* a second websocket has replaced the first one of the same session id, and
\* the first is still open on both ends
C14_Witness ==
    \E s \in SessionIds :
        /\ s \in DOMAIN active_connections
        /\ active_connections[s] = "ws2"
        /\ sockets["ws1"].sid = s
        /\ sockets["ws1"].pc = "loop"
        /\ sockets["ws1"].client = "open"
        /\ sockets["ws2"].sid = s

(***************************************************************************)
(* C15  A send_log never fails its caller.  When the send_text a stage     *)
(* handler waits for returns or raises, the only change to the tracked     *)
(* connections is the removal of the session id's entry (the failed        *)
(* write), and the handler runs on: after the first write to its sleep or  *)
(* (preview) to its append, after the second write to its normal payload,  *)
(* the step it appended still recorded.  A stage call for a session id     *)
(* with no tracked connection writes nothing and changes no connection.    *)
(***************************************************************************)
C15_FailedWriteIsSwallowed ==
    [][\A i \in Slots :
          LET h == handlers[i]
              resumed == handlers'[i] # h
              written == active_connections' \in
                            {active_connections, disconnect(active_connections, h.sid)}
              done == handlers'[i] = Idle /\ response' = Payload(h.kind, h.sid, h.file_id)
          IN  /\ (h.pc = "write1" /\ resumed) =>
                    /\ written
                    /\ IF h.kind = "preview"
                       THEN /\ pipeline_sessions' =
                                  RecordIfKnown(pipeline_sessions, h.sid, h.kind, h.file_id)
                            /\ (done \/ handlers'[i].pc = "write2")
                       ELSE /\ handlers'[i].pc = "sleep"
                            /\ pipeline_sessions' = pipeline_sessions
              /\ (h.pc = "write2" /\ resumed) =>
                    /\ written
                    /\ done
                    /\ pipeline_sessions' = pipeline_sessions
              /\ (h.pc = "sleep" /\ resumed) =>
                    /\ active_connections' = active_connections
                    /\ pipeline_sessions' =
                          RecordIfKnown(pipeline_sessions, h.sid, h.kind, h.file_id)
                    /\ (h.sid \notin DOMAIN active_connections => done)
              /\ (h = Idle /\ resumed /\ handlers'[i].sid \notin DOMAIN active_connections) =>
                    /\ handlers'[i].pc = "sleep"
                    /\ UNCHANGED <<active_connections, sockets, pipeline_sessions>>]_vars

\* a stage has answered with its payload and its step is the last recorded of
\* the session, although the socket of the session was closed by its client
\* and its entry was removed by a failed write
C15_Witness ==
    /\ response.status = 200
    /\ response.op \in SleepStages
    /\ response.sid \in DOMAIN pipeline_sessions
    /\ LET steps == pipeline_sessions[response.sid].steps
       IN  Len(steps) > 0 /\ steps[Len(steps)].step = response.op
    /\ response.sid \notin DOMAIN active_connections
    /\ sockets["ws1"] = Socket("loop", response.sid, "closed")
    /\ handlers = [i \in Slots |-> Idle]

(***************************************************************************)
(* The event loop resumes every coroutine whose await has completed: the   *)
(* steps of the handlers are weakly fair.  Requests and clients are free.  *)
(***************************************************************************)
HandlerProgress ==
    /\ \A i \in Slots : WF_vars(first_write_done(i))
    /\ \A i \in Slots : WF_vars(sleep_done(i))
    /\ \A i \in Slots : WF_vars(second_write_done(i))
    /\ \A ws \in WebSockets : WF_vars(connect(ws))
    /\ \A ws \in WebSockets : WF_vars(connect_write_done(ws))
SpecSocketsLive == SpecSockets /\ HandlerProgress

Tracks(ws) ==
    /\ sockets[ws].sid \in DOMAIN active_connections
    /\ active_connections[sockets[ws].sid] = ws

(***************************************************************************)
(* C16  Whenever the client of a tracked websocket has disconnected, the   *)
(* entry of that websocket is eventually removed from the active           *)
(* connections, also when no log line is sent to the session afterwards.   *)
(***************************************************************************)
C16_DisconnectRemovesEntry ==
    \A ws \in WebSockets :
        (sockets[ws].client = "closed" /\ Tracks(ws)) ~> ~Tracks(ws)

\* the session is in the store and its recorded owner is set and is not u
OwnedByAnother(s, u) ==
    /\ s \in DOMAIN pipeline_sessions
    /\ pipeline_sessions[s].user_id \notin {NoValue, u.user_id}

RecordOf(sessions, s) == IF s \in DOMAIN sessions THEN sessions[s] ELSE NoValue
EntryOf(conns, s) == IF s \in DOMAIN conns THEN conns[s] ELSE NoValue

\* the step is an operation addressed to session id s: a handler resumed or
\* suspended for s, a websocket step of a socket opened for s, or else a
\* request for s answered at once
AddressedTo(s) ==
    LET moved == {i \in Slots : handlers'[i] # handlers[i]}
        wsteps == {ws \in WebSockets : sockets'[ws] # sockets[ws]}
    IN  IF moved # {}
        THEN \E i \in moved :
                s = IF handlers[i] # Idle THEN handlers[i].sid ELSE handlers'[i].sid
        ELSE IF wsteps # {}
        THEN \E ws \in wsteps : s = sockets'[ws].sid
        ELSE s = response'.sid

(***************************************************************************)
(* C18  An operation addressed to session id s (state read, stage call,    *)
(* websocket connect, client disconnect, a send_log and its failed write)  *)
(* leaves the session record and the connection entry of every other       *)
(* session id as they were.                                                *)
(***************************************************************************)
C18_OtherSessionsUntouched ==
    [][\A s \in SessionIds :
          AddressedTo(s) =>
              \A o \in SessionIds \ {s} :
                  /\ RecordOf(pipeline_sessions', o) = RecordOf(pipeline_sessions, o)
                  /\ EntryOf(active_connections', o) = EntryOf(active_connections, o)]_vars

\* two sessions with records, one with a recorded step and the other with a
\* live connection, after a failed write has removed the entry of the first
C18_Witness ==
    /\ DOMAIN pipeline_sessions = SessionIds
    /\ Len(pipeline_sessions[UuidSid].steps) > 0
    /\ Len(pipeline_sessions[DefaultSid].steps) = 0
    /\ DOMAIN active_connections = {DefaultSid}
    /\ sockets["ws1"] = Socket("loop", UuidSid, "closed")
    /\ response.sid = UuidSid /\ response.status = 200 /\ response.op = "clean"

IsPrefix(a, b) == Len(a) <= Len(b) /\ \A k \in 1..Len(a) : b[k] = a[k]

(***************************************************************************)
(* C19  Session records and steps are append-only: in every transition     *)
(* every session id in the store stays in the store, and its steps         *)
(* sequence before the transition is a prefix of its steps sequence after. *)
(***************************************************************************)
C19_AppendOnly ==
    [][\A s \in DOMAIN pipeline_sessions :
          /\ s \in DOMAIN pipeline_sessions'
          /\ IsPrefix(pipeline_sessions[s].steps, pipeline_sessions'[s].steps)]_vars

\* a session that was uploaded to twice holds both steps, and another session
\* created by a state read is still in the store
C19_Witness ==
    /\ DOMAIN pipeline_sessions = SessionIds
    /\ Len(pipeline_sessions[UuidSid].steps) = 2
    /\ pipeline_sessions[UuidSid].steps[1].step = "upload"
    /\ pipeline_sessions[UuidSid].steps[2].step = "upload"

(***************************************************************************)
(* C20  Once delete_data has succeeded for an item of the caller, every    *)
(* later get_data of that caller for that id is answered 404.  (The        *)
(* response held is the one of the last operation, so a get_data response  *)
(* is later than every recorded delete.)                                   *)
(***************************************************************************)
C20_DeletedItemStays404 ==
    (app_response.op = "get_data"
        /\ <<app_response.caller, app_response.data_id>> \in deleted)
      => app_response.status = 404

(***************************************************************************)
(* C21  Listing the caller's data with a data_type filter                  *)
(* (GET /data?data_type=t) returns only items whose data_type is t.        *)
(***************************************************************************)
C21_FilterReturnsOnlyType ==
    [][\A u \in users, t \in valid_types :
          get_user_data_query(u, t) =>
              \A d \in app_response'.items : d.data_type = t]_vars

\* the characters the claim allows in a filename
AllowedInName ==
    Letters \cup Digits \cup TurkishLetters \cup {".", "_", "-"} \cup Whitespace

(***************************************************************************)
(* C22  validate_filename accepts "rapor_İşlem.csv" and rejects            *)
(* "../etc/passwd"; it returns true exactly for the non-empty names of at  *)
(* most 255 characters made only of ASCII letters, digits, the Turkish     *)
(* letters, dot, underscore, hyphen and whitespace, so a name with a path  *)
(* separator is rejected.                                                  *)
(***************************************************************************)
C22_FilenameAcceptedExactly ==
    checked.returned =>
        LET f == checked.filename
        IN  /\ checked.valid <=>
                  /\ Len(f) \in 1..255
                  /\ \A i \in 1..Len(f) : f[i] \in AllowedInName
            /\ (\E i \in 1..Len(f) : f[i] \in {"/", "\\"}) => ~checked.valid
            /\ f = RaporName => checked.valid
            /\ f = PasswdName => ~checked.valid

\* the Turkish name was checked and accepted
C22_Witness == checked = [filename |-> RaporName, returned |-> TRUE, valid |-> TRUE]

(***************************************************************************)
(* C23  Stage calls are recorded in whatever order they arrive, and        *)
(* whenever a transition appends a step to a session, the session's        *)
(* current_step afterwards is the fixed index of the stage of that step    *)
(* (upload 1, preview 2, clean 3, ... schema 9), whatever the number of    *)
(* steps recorded.                                                         *)
(***************************************************************************)
C23_CurrentStepIsStageIndex ==
    [][\A s \in DOMAIN pipeline_sessions' :
          LET new == pipeline_sessions'[s].steps
              old == IF s \in DOMAIN pipeline_sessions
                     THEN pipeline_sessions[s].steps ELSE <<>>
          IN  Len(new) = Len(old) + 1 =>
                  /\ new[Len(new)].step \in Stages
                  /\ pipeline_sessions'[s].current_step = StageIndex(new[Len(new)].step)]_vars

\* the last stage of the pipeline was recorded before the first one, and the
\* counter stands at 1 with two steps recorded
C23_Witness ==
    \E s \in DOMAIN pipeline_sessions :
        /\ Len(pipeline_sessions[s].steps) = 2
        /\ pipeline_sessions[s].steps[1].step = "schema"
        /\ pipeline_sessions[s].steps[2].step = "upload"
        /\ pipeline_sessions[s].current_step = 1

\* the identifier is made of exactly n (n < 0: one or more) characters of class
MadeOf(id, class, n) ==
    /\ IF n < 0 THEN Len(id) > 0 ELSE Len(id) = n
    /\ \A i \in 1..Len(id) : id[i] \in class

(***************************************************************************)
(* C24  upload_file and preview_data called with a session id that is not  *)
(* exactly 36 characters of [a-zA-Z0-9-], and preview_data called with a   *)
(* file id that is not one or more characters of [a-zA-Z0-9_-], answer 400 *)
(* and leave the session store as it was.                                  *)
(***************************************************************************)
C24_MalformedIdsAnswered400 ==
    [][\A s \in SessionIdInputs :
          LET badSid == ~MadeOf(s, Letters \cup Digits \cup {"-"}, 36)
          IN  /\ (badSid /\ upload_file(1, s, "token")) =>
                    (response'.status = 400 /\ pipeline_sessions' = pipeline_sessions)
              /\ \A f \in FileIdInputsAll :
                    LET badFile == ~MadeOf(f, Letters \cup Digits \cup {"_", "-"}, -1)
                    IN  ((badSid \/ badFile) /\ preview_data(1, s, f, "token")) =>
                            (response'.status = 400
                                /\ pipeline_sessions' = pipeline_sessions)]_vars

(***************************************************************************)
(* C25  In every reachable state the undo_stack, the redo_stack and the    *)
(* logs of every session record are empty.                                 *)
(***************************************************************************)
C25_StacksAndLogsStayEmpty ==
    \A s \in DOMAIN pipeline_sessions :
        /\ pipeline_sessions[s].undo_stack = <<>>
        /\ pipeline_sessions[s].redo_stack = <<>>
        /\ pipeline_sessions[s].logs = <<>>

\* a record created by an upload, with a later stage recorded and its log
\* lines written to a websocket, and a record created by a state read
C25_Witness ==
    /\ DOMAIN pipeline_sessions = SessionIds
    /\ pipeline_sessions[UuidSid].user_id # NoValue
    /\ Len(pipeline_sessions[UuidSid].steps) = 2
    /\ pipeline_sessions[UuidSid].steps[2].step \in SleepStages
    /\ UuidSid \in DOMAIN active_connections
    /\ response.op \in SleepStages /\ response.status = 200

\* current_step is 0 with no step recorded, else the index of the last step
CounterFollowsLastStep(record) ==
    IF record.steps = <<>> THEN record.current_step = 0
    ELSE record.current_step = StageIndex(record.steps[Len(record.steps)].step)

(***************************************************************************)
(* C26  With stage requests for the same session id in flight together     *)
(* and interleaved at their awaits, no append is lost: a handler that      *)
(* resumes from its sleep for a session in the store extends that          *)
(* session's steps by its own step; and in every reachable state each      *)
(* session's current_step is 0 when it has no steps and otherwise the      *)
(* fixed index of its last step.                                           *)
(***************************************************************************)
C26_NoAppendLost ==
    /\ [](\A s \in DOMAIN pipeline_sessions : CounterFollowsLastStep(pipeline_sessions[s]))
    /\ [][\A i \in Slots :
            LET h == handlers[i]
            IN  (h.pc = "sleep" /\ handlers'[i] # h /\ h.sid \in DOMAIN pipeline_sessions) =>
                    pipeline_sessions'[h.sid].steps =
                        Append(pipeline_sessions[h.sid].steps, Step(h.kind, h.file_id))]_vars

\* two handlers of one session are in flight together and both have appended
C26_Witness ==
    \E s \in DOMAIN pipeline_sessions :
        /\ \A i \in {1, 2} : handlers[i].sid = s /\ handlers[i].pc = "write2"
        /\ handlers[1].kind \in SleepStages /\ handlers[2].kind \in SleepStages
        /\ Len(pipeline_sessions[s].steps) = 2

\* the entries of the client's list that are less than (at most) age seconds old
Younger(c, age) == {k \in 1..Len(rate_limiter[c]) : now - rate_limiter[c][k] < age}
NotOlder(c, age) == {k \in 1..Len(rate_limiter[c]) : now - rate_limiter[c][k] <= age}

(***************************************************************************)
(* C27  The limiter keeps one list of request times per client for both    *)
(* categories and adds to it on admission only.  A request is answered     *)
(* 429 when the client's list has at least the category's maximum (upload  *)
(* 5, general 100) of entries younger than 60 seconds, and is admitted     *)
(* when it has fewer than that of entries at most 60 seconds old.  A       *)
(* rejected request adds no time to the list and reaches no handler; an    *)
(* admitted one adds its own time behind the entries younger than 60       *)
(* seconds and reaches the handler.                                        *)
(***************************************************************************)
C27_SharedWindowPerClient ==
    [][\A c \in Clients, p \in Paths :
          (/\ http'.client = c /\ http'.path = p
           /\ (http' # http \/ rate_limiter' # rate_limiter)) =>
              LET max == IF p = UploadPath THEN 5 ELSE 100
                  kept == SelectSeq(rate_limiter[c], LAMBDA t : now - t < 60)
              IN  /\ Cardinality(Younger(c, 60)) >= max => http'.status = 429
                  /\ Cardinality(NotOlder(c, 60)) < max => http'.status # 429
                  /\ http'.status = 429 =>
                        (~http'.handled /\ rate_limiter'[c] = kept)
                  /\ http'.status # 429 =>
                        (http'.handled /\ rate_limiter'[c] = Append(kept, now))
                  /\ \A o \in Clients \ {c} : rate_limiter'[o] = rate_limiter[o]]_vars

\* a general request was rejected with one hundred admitted requests of both
\* categories on the client's list
C27_Witness ==
    /\ http.status = 429 /\ http.path = StatePath /\ ~http.handled
    /\ Len(rate_limiter[http.client]) = 100

\* the step completes a write to websocket ws made for session id s
WriteReturns(ws, s) ==
    \/ \E i \in Slots :
          /\ handlers[i].pc \in {"write1", "write2"}
          /\ handlers'[i] # handlers[i]
          /\ handlers[i].ws = ws /\ handlers[i].sid = s
    \/ /\ sockets[ws].pc = "write" /\ sockets'[ws].pc = "loop"
       /\ sockets[ws].sid = s

(***************************************************************************)
(* C28  A connection entry is removed only because of that same            *)
(* connection: when the entry of a session id disappears, the step is the  *)
(* return of a write to the very websocket the entry held.  A failed write *)
(* to an earlier websocket of the session leaves a websocket registered    *)
(* later in place.                                                         *)
(***************************************************************************)
C28_EntryRemovedBySameConnection ==
    [][\A s \in DOMAIN active_connections :
          s \notin DOMAIN active_connections' =>
              WriteReturns(active_connections[s], s)]_vars

UsersWith(email) == {u \in users : u.email = email}
Created(email) ==
    {r \in RegisterSlots : registrations[r].email = email /\ registrations[r].status = 201}

(***************************************************************************)
(* C29  For every interleaving of two register requests with the same      *)
(* email, the look-up and the insert of each being separate steps and the  *)
(* users table refusing a second row with an email it has: at most one     *)
(* user with that email is stored and at most one request is answered 201; *)
(* when both requests have returned, exactly one was answered 201, the     *)
(* other was answered with an error (400 or 500), and one user with that   *)
(* email is stored.                                                        *)
(***************************************************************************)
C29_OneRegistrationPerEmail ==
    \A e \in Emails :
        /\ Cardinality(UsersWith(e)) <= 1
        /\ Cardinality(Created(e)) <= 1
        /\ (\A r \in RegisterSlots :
                registrations[r].email = e /\ registrations[r].pc = "done") =>
              /\ Cardinality(Created(e)) = 1
              /\ \A r \in RegisterSlots \ Created(e) : registrations[r].status \in {400, 500}
              /\ Cardinality(UsersWith(e)) = 1

\* both requests passed their look-up before either inserted: one was
\* answered 201, the other ran into the constraint and was answered 500
C29_Witness ==
    \E e \in Emails :
        /\ \A r \in RegisterSlots : registrations[r].email = e /\ registrations[r].pc = "done"
        /\ {registrations[r].status : r \in RegisterSlots} = {201, 500}
        /\ Cardinality(UsersWith(e)) = 1

(***************************************************************************)
(* C30  A session's owner is fixed when its record is created: a record    *)
(* created by get_pipeline_state has no user_id, a record created by       *)
(* upload_file has the uploading user's id, and no transition changes the  *)
(* user_id of a record in the store, an upload by another user to an       *)
(* existing session included.                                              *)
(***************************************************************************)
C30_OwnerFixedAtCreation ==
    [][/\ \A s \in DOMAIN pipeline_sessions :
            /\ s \in DOMAIN pipeline_sessions'
            /\ pipeline_sessions'[s].user_id = pipeline_sessions[s].user_id
       /\ \A s \in SessionIds \ DOMAIN pipeline_sessions :
            /\ get_pipeline_state(1, s) => pipeline_sessions'[s].user_id = NoValue
            /\ \A u \in Callers :
                  (upload_file_as(1, s, "token", u) /\ s \in DOMAIN pipeline_sessions') =>
                      pipeline_sessions'[s].user_id = u.user_id]_vars

\* a session created by a state read has been uploaded to and still has no
\* owner
C30_Witness ==
    \E s \in DOMAIN pipeline_sessions :
        /\ pipeline_sessions[s].user_id = NoValue
        /\ Len(pipeline_sessions[s].steps) > 0
        /\ pipeline_sessions[s].steps[1].step = "upload"
        /\ response.op = "upload" /\ response.status = 200 /\ response.sid = s

====
